---- MODULE Spec2Model ----
(***************************************************************************)
(* Kalpadeep IMS (webinv.py): the credential store (table users), the      *)
(* stock ledger (table inventory), the manager classes that read and write *)
(* them, and the Streamlit handlers that call the managers on behalf of a  *)
(* browser session.                                                        *)
(*                                                                         *)
(* Strings whose characters the code inspects (usernames, passwords, the   *)
(* QR and GPS text inputs) are sequences of one-character strings, so that *)
(* len(), str.strip(), "," in s and s.split(",") are computed, not assumed. *)
(* A nullable SQL column / Python Optional is a sequence of length <= 1:   *)
(* <<>> is NULL / None and <<v>> is the value v.                           *)
(***************************************************************************)
EXTENDS Integers, Sequences, FiniteSets, TLC

VARIABLES users, userSeq, inventory, invSeq, session, pending, master_df, last

vars == <<users, userSeq, inventory, invSeq, session, pending, master_df, last>>

(***************************************************************************)
(* Bounds of the model.                                                    *)
(***************************************************************************)
\* AUTOINCREMENT never reuses an id; the model stops inserting users at this id
MaxUserId == 3
\* the model stops inserting ledger rows at this id
MaxInventoryId == 3
\* the application model stops creating users at this id
MaxAppUserId == 2
\* the application model stops submitting stock entries at this id
MaxAppInventoryId == 2

(***************************************************************************)
(* Config                                                                  *)
(***************************************************************************)
DEFAULT_PASSWORD == <<"1", "2", "3", "4", "5", "6">>

ADMIN_PASSWORD == <<"a", "d", "m", "i", "n", "1", "2", "3">>

\* update_password and _handle_password_change: len(new_password) < 6
MinPasswordLen == 6

\* the literal "admin" as a username
ADMIN == <<"a", "d", "m", "i", "n">>

\* hashlib.sha256(p.encode()).hexdigest(): a digest distinct from every
\* plaintext and distinct for distinct plaintexts
sha256(p) == <<"sha256:">> \o p

(***************************************************************************)
(* Inputs the model draws from.                                            *)
(***************************************************************************)
BOB == <<"b", "o", "b">>

ALICE == <<"a", "l">>

\* what can be typed into "New Username" / "Username"
NameInputs == {<<>>, <<" ">>, BOB, <<" ">> \o BOB, ALICE, ADMIN}

NEW_PASSWORD == <<"n", "e", "w", "p", "a", "s", "s", "1">>

SHORT_PASSWORD == <<"a", "b", "c">>

\* what can be typed into the login form's password field
PasswordInputs == {DEFAULT_PASSWORD, ADMIN_PASSWORD, NEW_PASSWORD}

\* what can be given as a new password
NewPasswordInputs == {SHORT_PASSWORD, DEFAULT_PASSWORD, NEW_PASSWORD}

\* what the application model types into "New Password"
AppNewPasswordInputs == {SHORT_PASSWORD, NEW_PASSWORD}

\* what the application model types into "New Username"
AppNameInputs == {<<>>, BOB, <<" ">> \o BOB, ADMIN}

\* the usernames the application model logs in with and selects
AppUserNames == {ADMIN, BOB}

Roles == {"admin", "user"}

\* values the QR scanner writes into the qr_value text input
QRInputs == {<<>>, <<"Q">>}

\* values the GPS component writes into the gps_value text input ("lat,lon")
GPSInputs == {<<>>, <<"1", ",", "2">>}

\* what st.camera_input returns: None, or the picture taken
SnapshotInputs == {<<>>, <<"jpg">>}

\* the np.float64 a pandas row holds for a numeric cell
np_float64(x) == [np_float64 |-> x]

\* Item_master.xlsx: Item Master ID -> the columns copied into a ledger row
MasterData == [I1 |-> [description |-> "ISMB 100", unit_weight |-> np_float64(9)]]

\* Item_master.xlsx after somebody has edited the row of the same item
RevisedMasterData ==
    [I1 |-> [description |-> "ISMB 100 revised", unit_weight |-> np_float64(10)]]

\* the names the store-level operations are called with
UserNames == {ADMIN, BOB, ALICE}

\* number_input(min_value=0.0): the quantities and prices a form can submit
AmountInputs == {0, 1}

(***************************************************************************)
(* str helpers                                                             *)
(***************************************************************************)
IsSpace(c) == c \in {" ", "\t", "\n"}

RECURSIVE lstrip(_)
lstrip(s) == IF s # <<>> /\ IsSpace(Head(s)) THEN lstrip(Tail(s)) ELSE s

RECURSIVE rstrip(_)
rstrip(s) == IF s # <<>> /\ IsSpace(s[Len(s)])
             THEN rstrip(SubSeq(s, 1, Len(s) - 1)) ELSE s

\* str.strip()
strip(s) == rstrip(lstrip(s))

\* float() of a one-digit literal
DigitChars == <<"0", "1", "2", "3", "4", "5", "6", "7", "8", "9">>

to_float(c) == (CHOOSE i \in 1..10 : DigitChars[i] = c) - 1

\* StockEntryForm.render: gps_value and "," in gps_value -> lat, lon
\* (the model's GPS strings are "d,d")
parse_gps(g) == IF g # <<>> /\ (\E i \in 1..Len(g) : g[i] = ",")
                THEN [latitude |-> <<to_float(g[1])>>, longitude |-> <<to_float(g[3])>>]
                ELSE [latitude |-> <<>>, longitude |-> <<>>]

(***************************************************************************)
(* Table users: rows [id, username, password, role, must_change_password]. *)
(* A store value is the pair [rows, seq]: the rows and the last id         *)
(* AUTOINCREMENT handed out.                                               *)
(***************************************************************************)
UserRow(id, username, password, role, flag) ==
    [id |-> id, username |-> username, password |-> password,
     role |-> role, must_change_password |-> flag]

HasUser(rows, username) == \E r \in rows : r.username = username

\* INSERT_USER as it would run were username not declared UNIQUE
MutInsertUserNoUnique(U, username, password, role, flag) ==
    [error |-> FALSE,
     rows |-> U.rows \cup {UserRow(U.seq + 1, username, password, role, flag)},
     seq |-> U.seq + 1]

\* Config.INSERT_USER under username TEXT UNIQUE: the insert, or IntegrityError
\* with the transaction rolled back (get_connection)
insert_user(U, username, password, role, flag) ==
    IF HasUser(U.rows, username)
    THEN [error |-> TRUE, rows |-> U.rows, seq |-> U.seq]
    ELSE [error |-> FALSE,
          rows |-> U.rows \cup {UserRow(U.seq + 1, username, password, role, flag)},
          seq |-> U.seq + 1]

\* _create_default_admin running the INSERT without the SELECT before it
MutCreateDefaultAdminUnchecked(U) ==
    insert_user(U, ADMIN, sha256(ADMIN_PASSWORD), "admin", 0)

\* DatabaseManager._create_default_admin; error is the exception the INSERT
\* would raise out of initialize
create_default_admin(U) ==
    IF HasUser(U.rows, ADMIN)
    THEN [error |-> FALSE, rows |-> U.rows, seq |-> U.seq]
    ELSE insert_user(U, ADMIN, sha256(ADMIN_PASSWORD), "admin", 0)

\* AuthManager.check_login
check_login(U, username, password) ==
    LET result == {r \in U.rows : r.username = username
                                  /\ r.password = sha256(password)}
    IN  IF result # {}
        THEN LET r == CHOOSE x \in result : \A y \in result : x.id <= y.id
             IN  [success |-> TRUE, role |-> r.role,
                  must_change_password |-> r.must_change_password]
        ELSE [success |-> FALSE, role |-> "", must_change_password |-> 0]

\* AuthManager.create_user
create_user(U, username, role) ==
    IF username = <<>> \/ strip(username) = <<>>
    THEN [success |-> FALSE, message |-> "Username cannot be empty",
          rows |-> U.rows, seq |-> U.seq]
    ELSE LET r == insert_user(U, strip(username), sha256(DEFAULT_PASSWORD), role, 1)
         IN  IF r.error
             THEN [success |-> FALSE, message |-> "Username already exists",
                   rows |-> U.rows, seq |-> U.seq]
             ELSE [success |-> TRUE, message |-> "User created successfully",
                   rows |-> r.rows, seq |-> r.seq]

\* update_password writing the hash but not the must_change_password flag
MutUpdatePasswordKeepsFlag(U, username, new_password, force_change) ==
    IF Len(new_password) < MinPasswordLen
    THEN [ok |-> FALSE, rows |-> U.rows]
    ELSE [ok |-> TRUE,
          rows |-> {IF r.username = username
                    THEN [r EXCEPT !.password = sha256(new_password)]
                    ELSE r : r \in U.rows}]

\* AuthManager.update_password
update_password(U, username, new_password, force_change) ==
    IF Len(new_password) < MinPasswordLen
    THEN [ok |-> FALSE, rows |-> U.rows]
    ELSE [ok |-> TRUE,
          rows |-> {IF r.username = username
                    THEN [r EXCEPT !.password = sha256(new_password),
                                   !.must_change_password = force_change]
                    ELSE r : r \in U.rows}]

\* delete_user without the admin guard
MutDeleteUserNoAdminGuard(U, username, current_user) ==
    IF username = current_user
    THEN [success |-> FALSE, message |-> "You cannot delete yourself",
          rows |-> U.rows]
    ELSE [success |-> TRUE, message |-> "User deleted successfully",
          rows |-> {r \in U.rows : r.username # username}]

\* delete_user without the self guard
MutDeleteUserNoSelfGuard(U, username, current_user) ==
    IF username = ADMIN
    THEN [success |-> FALSE, message |-> "Admin account cannot be deleted",
          rows |-> U.rows]
    ELSE [success |-> TRUE, message |-> "User deleted successfully",
          rows |-> {r \in U.rows : r.username # username}]

\* AuthManager.delete_user
delete_user(U, username, current_user) ==
    IF username = ADMIN
    THEN [success |-> FALSE, message |-> "Admin account cannot be deleted",
          rows |-> U.rows]
    ELSE IF username = current_user
    THEN [success |-> FALSE, message |-> "You cannot delete yourself",
          rows |-> U.rows]
    ELSE [success |-> TRUE, message |-> "User deleted successfully",
          rows |-> {r \in U.rows : r.username # username}]

(***************************************************************************)
(* Table inventory: rows [id, item_master_id, item_description,            *)
(* unit_weight, qr_code, latitude, longitude, quantity, price, added_by].  *)
(* The other columns (source, vendor_name, make, vehicle_number, dates,    *)
(* project_name, dimensions, rack, shelf, snapshot) are form values        *)
(* written once by the same INSERT and read by no code; they are left out. *)
(* Of the snapshot the model keeps the file write, not the stored path.    *)
(***************************************************************************)
\* DataProcessor.to_native on a numpy scalar (the catalog's unit weight)
to_native(val) == val.np_float64

\* add_stock_entry bringing the item's earlier rows up to date with the
\* catalog row it is given
MutAddStockEntryRefreshesItem(I, data, storage_ok) ==
    IF storage_ok
    THEN [ok |-> TRUE, seq |-> I.seq + 1,
          rows |-> {IF r.item_master_id = data.item_master_id
                    THEN [r EXCEPT !.item_description = data.item_description,
                                   !.unit_weight = to_native(data.unit_weight)]
                    ELSE r : r \in I.rows} \cup
              {[id |-> I.seq + 1,
                item_master_id |-> data.item_master_id,
                item_description |-> data.item_description,
                unit_weight |-> to_native(data.unit_weight),
                qr_code |-> data.qr_code,
                latitude |-> data.latitude,
                longitude |-> data.longitude,
                quantity |-> data.quantity,
                price |-> data.price,
                added_by |-> data.added_by]}]
    ELSE [ok |-> FALSE, seq |-> I.seq, rows |-> I.rows]

\* InventoryManager.add_stock_entry; storage_ok = FALSE is execute_insert
\* raising (caught, logged, rolled back)
add_stock_entry(I, data, storage_ok) ==
    IF storage_ok
    THEN [ok |-> TRUE, seq |-> I.seq + 1,
          rows |-> I.rows \cup
              {[id |-> I.seq + 1,
                item_master_id |-> data.item_master_id,
                item_description |-> data.item_description,
                unit_weight |-> to_native(data.unit_weight),
                qr_code |-> data.qr_code,
                latitude |-> data.latitude,
                longitude |-> data.longitude,
                quantity |-> data.quantity,
                price |-> data.price,
                added_by |-> data.added_by]}]
    ELSE [ok |-> FALSE, seq |-> I.seq, rows |-> I.rows]

\* InventoryManager.save_snapshot: the path returned and the number of files
\* written to IMAGE_DIR
save_snapshot(image_data) ==
    IF image_data = <<>>
    THEN [path |-> <<>>, files |-> 0]
    ELSE [path |-> <<"images/snapshot.jpg">>, files |-> 1]

\* delete_stock_entry raising when its statement matches no row
MutDeleteStockEntryMissingFails(I, row_id, username, role) ==
    LET rows == IF role = "admin"
                THEN {r \in I.rows : r.id # row_id}
                ELSE {r \in I.rows : ~(r.id = row_id /\ r.added_by = username)}
    IN  [ok |-> rows # I.rows,
         sql |-> IF role = "admin"
                 THEN "DELETE FROM inventory WHERE id = ?"
                 ELSE "DELETE FROM inventory WHERE id = ? AND added_by = ?",
         rows |-> rows]

\* delete_stock_entry running the admin's statement for every role
MutDeleteStockEntryAnyRole(I, row_id, username, role) ==
    [ok |-> TRUE, sql |-> "DELETE FROM inventory WHERE id = ?",
     rows |-> {r \in I.rows : r.id # row_id}]

\* InventoryManager.delete_stock_entry
delete_stock_entry(I, row_id, username, role) ==
    IF role = "admin"
    THEN [ok |-> TRUE, sql |-> "DELETE FROM inventory WHERE id = ?",
          rows |-> {r \in I.rows : r.id # row_id}]
    ELSE [ok |-> TRUE, sql |-> "DELETE FROM inventory WHERE id = ? AND added_by = ?",
          rows |-> {r \in I.rows : ~(r.id = row_id /\ r.added_by = username)}]

\* bulk_delete with the upper bound excluded
MutBulkDeleteExclusive(I, start_id, end_id) ==
    [count |-> end_id - start_id + 1,
     sql |-> "DELETE FROM inventory WHERE id >= ? AND id < ?",
     rows |-> {r \in I.rows : ~(start_id <= r.id /\ r.id < end_id)}]

\* InventoryManager.bulk_delete
bulk_delete(I, start_id, end_id) ==
    [count |-> end_id - start_id + 1,
     sql |-> "DELETE FROM inventory WHERE id BETWEEN ? AND ?",
     rows |-> {r \in I.rows : ~(start_id <= r.id /\ r.id <= end_id)}]

(***************************************************************************)
(* State.  users, userSeq: table users and its AUTOINCREMENT counter;      *)
(* inventory, invSeq: table inventory and its counter; session: each       *)
(* browser session's st.session_state; pending: for each session's script   *)
(* thread, the delete_stock_entry call it has entered and not yet executed *)
(* (<<>> when none); master_df: the contents of Item_master.xlsx, which    *)
(* load_master_data reads on every pass; last: what the most recent        *)
(* operation was called with and what it returned or displayed; its        *)
(* rowcount is the number of rows the statement changed (sqlite3's         *)
(* cursor.rowcount, which the code never reads).                           *)
(***************************************************************************)
U == [rows |-> users, seq |-> userSeq]

I == [rows |-> inventory, seq |-> invSeq]

Sessions == {"s1", "s2"}

\* SessionManager.initialize: the defaults of a fresh st.session_state
SessionDefaults ==
    [logged_in |-> FALSE, stock_added |-> FALSE, qr_value |-> <<>>,
     gps_value |-> <<>>, entry_cycle |-> 0, reset_qr_gps |-> FALSE]

NoOut ==
    [op |-> "", user |-> <<>>, role |-> "", target |-> <<>>,
     password |-> <<>>, id |-> 0,
     lo |-> 0, hi |-> 0, flag |-> 0, ok |-> FALSE, count |-> 0,
     message |-> "", sql |-> "", rowcount |-> 0, files |-> 0,
     quantity |-> 0, price |-> 0]

\* the database after the module-level DatabaseManager.initialize() on a new
\* file, and no browser session opened yet
Init ==
    /\ users = create_default_admin([rows |-> {}, seq |-> 0]).rows
    /\ userSeq = create_default_admin([rows |-> {}, seq |-> 0]).seq
    /\ inventory = {}
    /\ invSeq = 0
    /\ session = [s \in Sessions |-> SessionDefaults]
    /\ pending = [s \in Sessions |-> <<>>]
    /\ master_df = MasterData
    /\ last = NoOut

(***************************************************************************)
(* The credential store called directly (AuthManager, DatabaseManager).    *)
(***************************************************************************)
\* DatabaseManager.initialize: CREATE TABLE IF NOT EXISTS, then the admin seed
initialize ==
    /\ users' = create_default_admin(U).rows
    /\ userSeq' = create_default_admin(U).seq
    /\ last' = [NoOut EXCEPT !.op = "initialize",
                             !.ok = ~create_default_admin(U).error]
    /\ UNCHANGED <<inventory, invSeq, session, pending, master_df>>

CallCheckLogin(username, password) ==
    LET r == check_login(U, username, password)
    IN  /\ last' = [NoOut EXCEPT !.op = "check_login", !.target = username,
                                 !.ok = r.success, !.role = r.role,
                                 !.flag = r.must_change_password]
        /\ UNCHANGED <<users, userSeq, inventory, invSeq, session, pending, master_df>>

CallCreateUser(username, role) ==
    LET r == create_user(U, username, role)
    IN  /\ r.seq <= MaxUserId
        /\ users' = r.rows
        /\ userSeq' = r.seq
        /\ last' = [NoOut EXCEPT !.op = "create_user", !.target = username,
                                 !.role = role, !.ok = r.success,
                                 !.message = r.message]
        /\ UNCHANGED <<inventory, invSeq, session, pending, master_df>>

CallUpdatePassword(username, new_password, force_change) ==
    LET r == update_password(U, username, new_password, force_change)
    IN  /\ users' = r.rows
        /\ last' = [NoOut EXCEPT !.op = "update_password", !.target = username,
                                 !.password = new_password, !.flag = force_change,
                                 !.ok = r.ok]
        /\ UNCHANGED <<userSeq, inventory, invSeq, session, pending, master_df>>

CallDeleteUser(username, current_user) ==
    LET r == delete_user(U, username, current_user)
    IN  /\ users' = r.rows
        /\ last' = [NoOut EXCEPT !.op = "delete_user", !.target = username,
                                 !.user = current_user, !.ok = r.success,
                                 !.message = r.message]
        /\ UNCHANGED <<userSeq, inventory, invSeq, session, pending, master_df>>

NextAuth ==
    \/ initialize
    \/ \E u \in UserNames, p \in PasswordInputs : CallCheckLogin(u, p)
    \/ \E n \in NameInputs, r \in Roles : CallCreateUser(n, r)
    \/ \E u \in UserNames, p \in NewPasswordInputs, f \in {0, 1} :
           CallUpdatePassword(u, p, f)
    \/ \E u \in UserNames, c \in UserNames : CallDeleteUser(u, c)

\* AuthManager's operations in any order, with any arguments
SpecAuth == Init /\ [][NextAuth]_vars

(***************************************************************************)
(* The stock ledger called directly (InventoryManager).                    *)
(***************************************************************************)
\* _handle_stock_submission: the stock_data dictionary built from the selected
\* catalog row (a copy of its cells), the form and the session's username
stock_data(item, form, username) ==
    [item_master_id |-> item,
     item_description |-> master_df[item].description,
     unit_weight |-> master_df[item].unit_weight,
     qr_code |-> form.qr_code,
     latitude |-> form.latitude,
     longitude |-> form.longitude,
     quantity |-> form.quantity,
     price |-> form.price,
     added_by |-> username]

\* StockEntryForm.render: the dictionary returned when the form is submitted
form_data(qr_value, gps_value, snapshot, quantity, price) ==
    [qr_code |-> qr_value,
     snapshot |-> snapshot,
     latitude |-> parse_gps(gps_value).latitude,
     longitude |-> parse_gps(gps_value).longitude,
     quantity |-> quantity,
     price |-> price]

InventoryIds == 1..MaxInventoryId

CallAddStockEntry(data, storage_ok) ==
    LET r == add_stock_entry(I, data, storage_ok)
    IN  /\ r.seq <= MaxInventoryId
        /\ inventory' = r.rows
        /\ invSeq' = r.seq
        /\ last' = [NoOut EXCEPT !.op = "add_stock_entry",
                                 !.user = data.added_by, !.ok = r.ok]
        /\ UNCHANGED <<users, userSeq, session, pending, master_df>>

CallDeleteStockEntry(row_id, username, role) ==
    LET r == delete_stock_entry(I, row_id, username, role)
    IN  /\ inventory' = r.rows
        /\ last' = [NoOut EXCEPT !.op = "delete_stock_entry", !.id = row_id,
                                 !.user = username, !.role = role,
                                 !.ok = r.ok, !.sql = r.sql,
                                 !.rowcount = Cardinality(inventory \ r.rows)]
        /\ UNCHANGED <<users, userSeq, invSeq, session, pending, master_df>>

CallBulkDelete(start_id, end_id) ==
    LET r == bulk_delete(I, start_id, end_id)
    IN  /\ inventory' = r.rows
        /\ last' = [NoOut EXCEPT !.op = "bulk_delete", !.lo = start_id,
                                 !.hi = end_id, !.count = r.count,
                                 !.sql = r.sql,
                                 !.rowcount = Cardinality(inventory \ r.rows)]
        /\ UNCHANGED <<users, userSeq, invSeq, session, pending, master_df>>

NextLedger ==
    \/ \E u \in {ALICE, BOB}, q \in QRInputs, ok \in BOOLEAN :
           CallAddStockEntry(stock_data("I1", form_data(q, <<>>, <<>>, 1, 1), u), ok)
    \/ \E id \in InventoryIds, u \in UserNames, r \in Roles :
           CallDeleteStockEntry(id, u, r)
    \/ \E lo \in InventoryIds, hi \in InventoryIds : CallBulkDelete(lo, hi)

\* InventoryManager's operations in any order, with any arguments
SpecLedger == Init /\ [][NextLedger]_vars

(***************************************************************************)
(* The ledger over time: entries added from a catalog file that is edited  *)
(* outside the program, next to everything else that writes the database.  *)
(***************************************************************************)
\* Item_master.xlsx replaced on disk; load_master_data reads the new contents
ReviseMasterFile ==
    /\ master_df' \in {MasterData, RevisedMasterData} \ {master_df}
    /\ last' = [NoOut EXCEPT !.op = "Item_master.xlsx"]
    /\ UNCHANGED <<users, userSeq, inventory, invSeq, session, pending>>

NextArchive ==
    \/ ReviseMasterFile
    \/ \E ok \in BOOLEAN :
           CallAddStockEntry(
               stock_data("I1", form_data(<<>>, <<>>, <<>>, 1, 1), BOB), ok)
    \/ \E id \in InventoryIds, u \in AppUserNames, r \in Roles :
           CallDeleteStockEntry(id, u, r)
    \/ \E lo \in InventoryIds, hi \in InventoryIds : CallBulkDelete(lo, hi)
    \/ CallCreateUser(BOB, "user")
    \/ \E u \in AppUserNames : CallUpdatePassword(u, NEW_PASSWORD, 0)
    \/ CallDeleteUser(BOB, ADMIN)

\* every statement that writes the database, and the catalog file changing
SpecArchive == Init /\ [][NextArchive]_vars

(***************************************************************************)
(* The database file from before its first use: the module-level           *)
(* DatabaseManager.initialize() runs at every process start and script     *)
(* rerun, ahead of any other statement.                                    *)
(***************************************************************************)
\* a database file that does not exist yet: sqlite3.connect creates it empty
InitFile ==
    /\ users = {}
    /\ userSeq = 0
    /\ inventory = {}
    /\ invSeq = 0
    /\ session = [s \in Sessions |-> SessionDefaults]
    /\ pending = [s \in Sessions |-> <<>>]
    /\ master_df = MasterData
    /\ last = NoOut

\* the tables exist: initialize has run (its seed leaves the users counter
\* above 0 for good)
TablesExist == userSeq > 0

NextStartup ==
    \/ initialize
    \/ /\ TablesExist
       /\ \/ \E n \in AppNameInputs : CallCreateUser(n, "user")
          \/ \E u \in AppUserNames, p \in AppNewPasswordInputs, f \in {0, 1} :
                 CallUpdatePassword(u, p, f)
          \/ \E u \in AppUserNames : CallDeleteUser(u, ADMIN)
          \/ \E u \in AppUserNames, ok \in BOOLEAN :
                 CallAddStockEntry(
                     stock_data("I1", form_data(<<>>, <<>>, <<>>, 1, 1), u), ok)
          \/ \E id \in InventoryIds : CallDeleteStockEntry(id, ADMIN, "admin")

\* process starts on a new database file, interleaved with the statements
\* that write the two tables
SpecStartup == InitFile /\ [][NextStartup]_vars

(***************************************************************************)
(* The application: InventoryApp.run for one browser session.  A click     *)
(* reruns the script, so each action is one pass of run() with one button  *)
(* pressed, together with the st.rerun() pass the handler ends with.       *)
(***************************************************************************)
\* run(): the session is past the login form and the password-change page
MainView(ss) == ss.logged_in /\ ss.must_change_password # 1

\* the reset clearing the QR value and leaving the GPS value
MutResetKeepsGps(ss) ==
    IF ss.reset_qr_gps
    THEN [ss EXCEPT !.qr_value = <<>>, !.reset_qr_gps = FALSE]
    ELSE ss

\* run(): "Reset QR/GPS if requested", executed before the form is built
reset_qr_gps(ss) ==
    IF ss.reset_qr_gps
    THEN [ss EXCEPT !.qr_value = <<>>, !.gps_value = <<>>, !.reset_qr_gps = FALSE]
    ELSE ss

\* the ids StockDisplay.render offers: stock_df["id"]
StockIds == {r.id : r \in inventory}

min_id == CHOOSE i \in StockIds : \A j \in StockIds : i <= j

max_id == CHOOSE i \in StockIds : \A j \in StockIds : i >= j

\* InventoryApp._handle_login with the Login button pressed
Login(s, username, password) ==
    LET ss == session[s]
        result == check_login(U, username, password)
    IN  /\ ~ss.logged_in
        /\ session' = [session EXCEPT ![s] =
              IF result.success
              THEN [logged_in |-> TRUE, stock_added |-> ss.stock_added,
                    qr_value |-> ss.qr_value, gps_value |-> ss.gps_value,
                    entry_cycle |-> ss.entry_cycle,
                    reset_qr_gps |-> ss.reset_qr_gps,
                    username |-> username, role |-> result.role,
                    must_change_password |-> result.must_change_password]
              ELSE ss]
        /\ last' = [NoOut EXCEPT !.op = "Login", !.ok = result.success,
                                 !.message = IF result.success THEN ""
                                             ELSE "Invalid Username or Password"]
        /\ UNCHANGED <<users, userSeq, inventory, invSeq, pending, master_df>>

\* InventoryApp._handle_password_change with Update Password pressed
ChangePassword(s, new_password) ==
    LET ss == session[s]
        short == Len(new_password) < MinPasswordLen
        r == update_password(U, ss.username, new_password, 0)
    IN  /\ ss.logged_in
        /\ ss.must_change_password = 1
        /\ users' = IF short THEN users ELSE r.rows
        /\ session' = [session EXCEPT ![s] =
              IF ~short /\ r.ok
              THEN [ss EXCEPT !.must_change_password = 0] ELSE ss]
        /\ last' = [NoOut EXCEPT
              !.op = "ChangePassword", !.ok = ~short /\ r.ok,
              !.message = IF short
                          THEN "Password must be at least 6 characters long"
                          ELSE "Password updated successfully!"]
        /\ UNCHANGED <<userSeq, inventory, invSeq, pending, master_df>>

\* UIComponents.render_logout_button pressed: st.session_state.clear(), and
\* SessionManager.initialize on the rerun
Logout(s) ==
    /\ MainView(session[s])
    /\ session' = [session EXCEPT ![s] = SessionDefaults]
    /\ last' = [NoOut EXCEPT !.op = "Logout"]
    /\ UNCHANGED <<users, userSeq, inventory, invSeq, pending, master_df>>

\* AdminPanel.render: Create User submitted
AdminCreateUser(s, new_user) ==
    LET ss == session[s]
        r == create_user(U, new_user, "user")
    IN  /\ MainView(ss)
        /\ ss.role = "admin"
        /\ r.seq <= MaxAppUserId
        /\ users' = r.rows
        /\ userSeq' = r.seq
        /\ last' = [NoOut EXCEPT !.op = "CreateUser", !.ok = r.success,
                                 !.message = r.message]
        /\ UNCHANGED <<inventory, invSeq, session, pending, master_df>>

\* AdminPanel.render: Reset Password pressed for the selected user
AdminResetPassword(s, selected_user) ==
    LET ss == session[s]
        r == update_password(U, selected_user, DEFAULT_PASSWORD, 1)
    IN  /\ MainView(ss)
        /\ ss.role = "admin"
        /\ HasUser(users, selected_user)
        /\ users' = r.rows
        /\ last' = [NoOut EXCEPT !.op = "ResetPassword", !.ok = r.ok,
                                 !.message = "Password reset"]
        /\ UNCHANGED <<userSeq, inventory, invSeq, session, pending, master_df>>

\* AdminPanel.render: Delete User pressed for the selected user
AdminDeleteUser(s, selected_user) ==
    LET ss == session[s]
        r == delete_user(U, selected_user, ss.username)
    IN  /\ MainView(ss)
        /\ ss.role = "admin"
        /\ HasUser(users, selected_user)
        /\ users' = r.rows
        /\ last' = [NoOut EXCEPT !.op = "DeleteUser", !.ok = r.success,
                                 !.message = r.message]
        /\ UNCHANGED <<userSeq, inventory, invSeq, session, pending, master_df>>

\* UIComponents.render_qr_scanner: the scanner writes the qr_value input
CaptureQR(s, qr) ==
    /\ MainView(session[s])
    /\ session' = [session EXCEPT ![s].qr_value = qr]
    /\ last' = [NoOut EXCEPT !.op = "CaptureQR"]
    /\ UNCHANGED <<users, userSeq, inventory, invSeq, pending, master_df>>

\* UIComponents.render_gps_locator: the component writes the gps_value input
CaptureGPS(s, gps) ==
    /\ MainView(session[s])
    /\ session' = [session EXCEPT ![s].gps_value = gps]
    /\ last' = [NoOut EXCEPT !.op = "CaptureGPS"]
    /\ UNCHANGED <<users, userSeq, inventory, invSeq, pending, master_df>>

\* _handle_stock_submission: the validation that rejects a submission
MutRejectsOnlyWhenBoth(form) == form.quantity <= 0 /\ form.price <= 0

\* _handle_stock_submission: the validation that rejects a submission
submission_rejected(form) == form.quantity <= 0 \/ form.price <= 0

\* _handle_stock_submission saving the snapshot ahead of the validation
MutHandleSubmissionSnapshotFirst(S, ss, form, storage_ok) ==
    LET snap == save_snapshot(form.snapshot)
    IN  IF submission_rejected(form)
        THEN [rows |-> S.rows, seq |-> S.seq, ss |-> ss, ok |-> FALSE,
              files |-> snap.files,
              message |-> "Quantity and Price must be greater than 0"]
        ELSE LET r == add_stock_entry(S, stock_data("I1", form, ss.username),
                                      storage_ok)
             IN  IF r.ok
                 THEN [rows |-> r.rows, seq |-> r.seq, ok |-> TRUE,
                       files |-> snap.files,
                       message |-> "Stock entry successful!",
                       ss |-> reset_qr_gps([ss EXCEPT !.stock_added = TRUE,
                                                      !.reset_qr_gps = TRUE,
                                                      !.entry_cycle = @ + 1])]
                 ELSE [rows |-> S.rows, seq |-> S.seq, ss |-> ss, ok |-> FALSE,
                       files |-> snap.files, message |-> "Failed to add stock"]

\* InventoryApp._handle_stock_submission, and the rerun it ends with; files is
\* the number of snapshot files it wrote
handle_stock_submission(S, ss, form, storage_ok) ==
    IF submission_rejected(form)
    THEN [rows |-> S.rows, seq |-> S.seq, ss |-> ss, ok |-> FALSE, files |-> 0,
          message |-> "Quantity and Price must be greater than 0"]
    ELSE LET snap == save_snapshot(form.snapshot)
             r == add_stock_entry(S, stock_data("I1", form, ss.username), storage_ok)
         IN  IF r.ok
             THEN [rows |-> r.rows, seq |-> r.seq, ok |-> TRUE,
                   files |-> snap.files,
                   message |-> "Stock entry successful!",
                   ss |-> reset_qr_gps([ss EXCEPT !.stock_added = TRUE,
                                                  !.reset_qr_gps = TRUE,
                                                  !.entry_cycle = @ + 1])]
             ELSE [rows |-> S.rows, seq |-> S.seq, ss |-> ss, ok |-> FALSE,
                   files |-> snap.files, message |-> "Failed to add stock"]

\* the stock entry form submitted with Add Stock
Submit(s, snapshot, quantity, price, storage_ok) ==
    LET ss == session[s]
        form == form_data(ss.qr_value, ss.gps_value, snapshot, quantity, price)
        r == handle_stock_submission(I, ss, form, storage_ok)
    IN  /\ MainView(ss)
        /\ r.seq <= MaxAppInventoryId
        /\ inventory' = r.rows
        /\ invSeq' = r.seq
        /\ session' = [session EXCEPT ![s] = r.ss]
        /\ last' = [NoOut EXCEPT !.op = "Submit", !.ok = r.ok,
                                 !.message = r.message, !.files = r.files,
                                 !.quantity = quantity, !.price = price]
        /\ UNCHANGED <<users, userSeq, pending, master_df>>

\* StockDisplay.render: Delete Selected Entry pressed
DeleteEntry(s, row_to_delete) ==
    LET ss == session[s]
        r == delete_stock_entry(I, row_to_delete, ss.username, ss.role)
    IN  /\ MainView(ss)
        /\ row_to_delete \in StockIds
        /\ inventory' = r.rows
        /\ last' = [NoOut EXCEPT !.op = "DeleteEntry", !.user = ss.username,
                                 !.role = ss.role, !.id = row_to_delete,
                                 !.ok = r.ok, !.sql = r.sql,
                                 !.message = "Entry deleted successfully",
                                 !.rowcount = Cardinality(inventory \ r.rows)]
        /\ UNCHANGED <<users, userSeq, invSeq, session, pending, master_df>>

\* the Delete Range handler calling bulk_delete whatever the bounds
MutDeleteRangeUnchecked(S, start_id, end_id) ==
    LET r == bulk_delete(S, start_id, end_id)
    IN  [rows |-> r.rows, sql |-> r.sql, count |-> r.count, ok |-> TRUE,
         message |-> "Deleted records"]

\* StockDisplay.render: the body of `if st.button("Delete Range")`
delete_range_pressed(S, start_id, end_id) ==
    IF start_id > end_id
    THEN [rows |-> S.rows, sql |-> "", count |-> 0, ok |-> FALSE,
          message |-> "Start ID cannot be greater than End ID"]
    ELSE LET r == bulk_delete(S, start_id, end_id)
         IN  [rows |-> r.rows, sql |-> r.sql, count |-> r.count, ok |-> TRUE,
              message |-> "Deleted records"]

\* the bulk delete section built for every session
MutBulkDeleteOfferedToAll(ss) == TRUE

\* StockDisplay.render: `if st.session_state.get("role") == "admin"` around
\* the bulk delete section
bulk_delete_offered(ss) == ss.role = "admin"

\* StockDisplay.render: Delete Range pressed (the section is built for admin
\* sessions only, its number inputs are bounded by the ids on display)
DeleteRange(s, start_id, end_id) ==
    LET ss == session[s]
        r == delete_range_pressed(I, start_id, end_id)
    IN  /\ MainView(ss)
        /\ StockIds # {}
        /\ bulk_delete_offered(ss)
        /\ start_id \in min_id..max_id
        /\ end_id \in min_id..max_id
        /\ inventory' = r.rows
        /\ last' = [NoOut EXCEPT !.op = "DeleteRange",
                                 !.role = ss.role, !.lo = start_id,
                                 !.hi = end_id, !.ok = r.ok, !.sql = r.sql,
                                 !.count = r.count, !.message = r.message,
                                 !.rowcount = Cardinality(inventory \ r.rows)]
        /\ UNCHANGED <<users, userSeq, invSeq, session, pending, master_df>>

Next ==
    \/ initialize
    \/ \E s \in Sessions, u \in AppUserNames, p \in PasswordInputs : Login(s, u, p)
    \/ \E s \in Sessions, p \in AppNewPasswordInputs : ChangePassword(s, p)
    \/ \E s \in Sessions : Logout(s)
    \/ \E s \in Sessions, n \in AppNameInputs : AdminCreateUser(s, n)
    \/ \E s \in Sessions, u \in AppUserNames : AdminResetPassword(s, u)
    \/ \E s \in Sessions, u \in AppUserNames : AdminDeleteUser(s, u)
    \/ \E s \in Sessions, a \in AmountInputs, ok \in BOOLEAN :
           Submit(s, <<>>, a, a, ok)
    \/ \E s \in Sessions, id \in InventoryIds : DeleteEntry(s, id)
    \/ \E s \in Sessions, lo \in InventoryIds, hi \in InventoryIds :
           DeleteRange(s, lo, hi)

\* the application driven through its pages: login, password change, the
\* admin panel, the entry form with the scanner, the GPS button and the camera
\* left untouched (submitted as it is shown, quantity and price 0.0, or with
\* both filled in), and the stock display
Spec == Init /\ [][Next]_vars

NextIntake ==
    \/ initialize
    \/ \E s \in Sessions, p \in PasswordInputs : Login(s, ADMIN, p)
    \/ \E s \in Sessions : Logout(s)
    \/ \E s \in Sessions, q \in QRInputs : CaptureQR(s, q)
    \/ \E s \in Sessions, g \in GPSInputs : CaptureGPS(s, g)
    \/ \E s \in Sessions, c \in SnapshotInputs, q \in AmountInputs,
          p \in AmountInputs, ok \in BOOLEAN :
           Submit(s, c, q, p, ok)

\* the entry form with its capture widgets, used by the seeded admin account
SpecIntake == Init /\ [][NextIntake]_vars

(***************************************************************************)
(* Two script threads deleting at once.  Streamlit runs each session's     *)
(* script in a thread of its own; a pass that has Delete Selected Entry    *)
(* pressed loads the table, takes the selected id and calls                *)
(* delete_stock_entry, whose one statement runs and commits on a           *)
(* connection of its own (SQLite lets one connection write at a time).     *)
(***************************************************************************)
\* StockDisplay.render up to the call: the id is one of those just loaded
BeginDeleteStockEntry(s, row_id, username, role) ==
    /\ pending[s] = <<>>
    /\ row_id \in StockIds
    /\ pending' = [pending EXCEPT ![s] =
                       <<[id |-> row_id, username |-> username, role |-> role]>>]
    /\ last' = [NoOut EXCEPT !.op = "StockDisplay.render", !.id = row_id,
                             !.user = username, !.role = role]
    /\ UNCHANGED <<users, userSeq, inventory, invSeq, session, master_df>>

\* delete_stock_entry's execute_query: the statement and its commit
ExecDeleteStockEntry(s) ==
    /\ pending[s] # <<>>
    /\ LET req == pending[s][1]
           r == delete_stock_entry(I, req.id, req.username, req.role)
       IN  /\ inventory' = r.rows
           /\ last' = [NoOut EXCEPT !.op = "delete_stock_entry", !.id = req.id,
                                    !.user = req.username, !.role = req.role,
                                    !.ok = r.ok, !.sql = r.sql,
                                    !.rowcount = Cardinality(inventory \ r.rows)]
    /\ pending' = [pending EXCEPT ![s] = <<>>]
    /\ UNCHANGED <<users, userSeq, invSeq, session, master_df>>

NextRace ==
    \/ \E u \in {ALICE, BOB}, ok \in BOOLEAN :
           CallAddStockEntry(
               stock_data("I1", form_data(<<>>, <<>>, <<>>, 1, 1), u), ok)
    \/ \E s \in Sessions, id \in InventoryIds, u \in UserNames, r \in Roles :
           BeginDeleteStockEntry(s, id, u, r)
    \/ \E s \in Sessions : ExecDeleteStockEntry(s)

\* entries added and deleted by two threads whose calls overlap
SpecRace == Init /\ [][NextRace]_vars

(***************************************************************************)
(* Properties of the credential store.                                     *)
(***************************************************************************)
\* C1: whatever operations have run, by whatever actors, table users holds a
\* row whose username is 'admin'.
C1_AdminRowAlwaysExists == \E r \in users : r.username = ADMIN

\* somebody other than admin asked for the admin account to be deleted, and
\* other accounts exist
C1_Witness ==
    /\ last.op = "delete_user"
    /\ last.target = ADMIN
    /\ last.user # ADMIN
    /\ Cardinality(users) > 1

WhitespaceOnly(s) == \A i \in 1..Len(s) : s[i] \in {" ", "\t", "\n"}

\* C8: create with an empty or whitespace-only username fails with "Username
\* cannot be empty", create with a username that is already stored fails with
\* "Username already exists", both leave table users as it was, and no two
\* rows ever share a username.
C8_CreateRejectsEmptyAndDuplicate ==
    /\ [](\A r1, r2 \in users : r1.username = r2.username => r1 = r2)
    /\ [][last'.op = "create_user" =>
            /\ WhitespaceOnly(last'.target) =>
                   /\ ~last'.ok
                   /\ last'.message = "Username cannot be empty"
                   /\ users' = users /\ userSeq' = userSeq
            /\ HasUser(users, last'.target) =>
                   /\ ~last'.ok
                   /\ last'.message = "Username already exists"
                   /\ users' = users /\ userSeq' = userSeq]_vars

\* bob, already stored, was created a second time and refused
C8_Witness ==
    /\ last.op = "create_user"
    /\ last.target = BOB
    /\ last.message = "Username already exists"
    /\ Cardinality({r \in users : r.username = BOB}) = 1

\* C9: delete of 'admin' always fails with "Admin account cannot be deleted";
\* delete of the acting user's own account (other than admin, whose refusal
\* is the one above) fails with "You cannot delete yourself"; both leave table
\* users as it was; any other delete removes the rows of that username and no
\* other row.
C9_DeleteUserGuards ==
    [][last'.op = "delete_user" =>
          IF last'.target = ADMIN
          THEN /\ ~last'.ok
               /\ last'.message = "Admin account cannot be deleted"
               /\ users' = users
          ELSE IF last'.target = last'.user
          THEN /\ ~last'.ok
               /\ last'.message = "You cannot delete yourself"
               /\ users' = users
          ELSE /\ last'.ok
               /\ users' = {r \in users : r.username # last'.target}]_vars

\* a stored user asked for their own account to be deleted and still has it
C9_Witness ==
    /\ last.op = "delete_user"
    /\ last.target = last.user
    /\ last.target # ADMIN
    /\ ~last.ok
    /\ HasUser(users, last.target)

\* verify(username, password) authenticates and reports the given flag
Authenticates(username, password, flag) ==
    LET v == check_login(U, username, password)
    IN  v.success /\ v.must_change_password = flag

\* C10 as stated: right after create(u, 'user') succeeds, verify(u, default
\* password) authenticates with must_change_password = 1; right after
\* update_password(u, p, 0) with len(p) >= 6 on a stored user, verify(u, p)
\* authenticates with must_change_password = 0.
C10_Original ==
    /\ (last.op = "create_user" /\ last.role = "user" /\ last.ok)
          => Authenticates(last.target, DEFAULT_PASSWORD, 1)
    /\ (last.op = "update_password" /\ last.flag = 0
          /\ Len(last.password) >= 6 /\ HasUser(users, last.target))
          => Authenticates(last.target, last.password, 0)

\* C10 as amended: the same, for the username as create stores it, which is u
\* without its leading and trailing whitespace.
C10_PasswordLifecycle ==
    /\ (last.op = "create_user" /\ last.role = "user" /\ last.ok)
          => Authenticates(strip(last.target), DEFAULT_PASSWORD, 1)
    /\ (last.op = "update_password" /\ last.flag = 0
          /\ Len(last.password) >= 6 /\ HasUser(users, last.target))
          => Authenticates(last.target, last.password, 0)

\* a user created with the default password has just been given a new one
\* with force_change = 0
C10_Witness ==
    /\ last.op = "update_password"
    /\ last.target = ALICE
    /\ last.password = NEW_PASSWORD
    /\ last.flag = 0
    /\ \E r \in users : r.username = ALICE /\ r.role = "user"
                         /\ r.password = sha256(NEW_PASSWORD)

\* C11: initialize raises no error and leaves table inventory alone; on a
\* store that holds an 'admin' row it leaves table users as it was, whatever
\* that row's password has become; on a store without one it adds exactly one
\* row, username 'admin' with must_change_password = 0; a second call changes
\* nothing more.
C11_InitializeIdempotent ==
    [][last'.op = "initialize" =>
          /\ last'.ok
          /\ inventory' = inventory /\ invSeq' = invSeq
          /\ IF HasUser(users, ADMIN)
             THEN users' = users /\ userSeq' = userSeq
             ELSE \E r \in users' :
                      /\ r \notin users
                      /\ users' = users \cup {r}
                      /\ r.username = ADMIN
                      /\ r.must_change_password = 0
          /\ create_default_admin([rows |-> users', seq |-> userSeq']).rows = users'
          /\ ~create_default_admin([rows |-> users', seq |-> userSeq']).error]_vars

\* initialize has just run on a store whose admin password is no longer the
\* seeded one, next to another user and a ledger row
C11_Witness ==
    /\ last.op = "initialize"
    /\ last.ok
    /\ \E r \in users : r.username = ADMIN /\ r.password # sha256(ADMIN_PASSWORD)
    /\ HasUser(users, BOB)
    /\ inventory # {}

(***************************************************************************)
(* Properties of the stock ledger.                                         *)
(***************************************************************************)
\* C3: delete_stock_entry(id, username, role) removes the row with that id
\* exactly when it exists and role is admin or the row's added_by is
\* username; every other row stays.
C3_DeleteByIdAuthorization ==
    [][last'.op = "delete_stock_entry" =>
          inventory' = inventory \
              {r \in inventory :
                  /\ r.id = last'.id
                  /\ (last'.role = "admin" \/ r.added_by = last'.user)}]_vars

\* a non-admin asked for another user's entry to be deleted; it is still there
C3_Witness ==
    /\ last.op = "delete_stock_entry"
    /\ last.role = "user"
    /\ \E r \in inventory : r.id = last.id /\ r.added_by # last.user

\* what the caller of delete_stock_entry is told was removed: the returned
\* value read as a count (True is 1)
ReportedCount(ok) == IF ok THEN 1 ELSE 0

\* C4: delete_stock_entry reports the number of rows it removed: 0 when the
\* id does not exist or a non-admin targets another user's entry, 1 when an
\* existing entry is deleted by its owner or an admin.
C4_DeleteByIdReportsRemoved ==
    last.op \in {"delete_stock_entry", "DeleteEntry"}
        => ReportedCount(last.ok) = last.rowcount

\* C5: bulk_delete(start_id, end_id) with start_id <= end_id removes exactly
\* the rows with start_id <= id <= end_id and leaves the others unchanged.
C5_DeleteRangeInclusive ==
    [][(last'.op = "bulk_delete" /\ last'.lo <= last'.hi) =>
          inventory' = {r \in inventory : r.id < last'.lo \/ r.id > last'.hi}]_vars

\* rows 2 and 3 were removed by bulk_delete(2, 3) and row 1 is still there
C5_Witness ==
    /\ last.op = "bulk_delete"
    /\ last.lo = 2 /\ last.hi = 3
    /\ last.rowcount = 2
    /\ \E r \in inventory : r.id = 1

\* C6: the count bulk_delete returns, which the Delete Range handler displays,
\* is the number of rows the call removed.
C6_DeleteRangeCount ==
    last.op \in {"bulk_delete", "DeleteRange"} => last.count = last.rowcount

(***************************************************************************)
(* Properties of the application.                                          *)
(***************************************************************************)
\* C2: every row of table inventory has quantity > 0 and price > 0.
C2_LedgerRowsPositive ==
    \A r \in inventory : r.quantity > 0 /\ r.price > 0

\* a submission has just been turned down by the validation, next to rows
\* that were admitted
C2_Witness ==
    /\ last.op = "Submit"
    /\ last.message = "Quantity and Price must be greater than 0"
    /\ inventory # {}

\* C7: a Delete Range with start_id > end_id is refused before anything is
\* executed: table inventory is unchanged and no statement is issued.
C7_ReversedRangeRejected ==
    [][(last'.op = "DeleteRange" /\ last'.lo > last'.hi) =>
          /\ inventory' = inventory
          /\ last'.sql = ""
          /\ ~last'.ok
          /\ last'.message = "Start ID cannot be greater than End ID"]_vars

\* a reversed range was asked for over a ledger of at least two rows
C7_Witness ==
    /\ last.op = "DeleteRange"
    /\ last.lo > last.hi
    /\ Cardinality(inventory) >= 2

\* C12: a submission with quantity <= 0 or price <= 0 writes nothing: tables
\* inventory is as it was, no snapshot file is written, the violation is
\* reported, and the session keeps its entry cycle and its captured QR and GPS
\* values.
C12_RejectedSubmissionWritesNothing ==
    [][(last'.op = "Submit" /\ (last'.quantity <= 0 \/ last'.price <= 0)) =>
          /\ inventory' = inventory /\ invSeq' = invSeq
          /\ last'.files = 0
          /\ ~last'.ok
          /\ last'.message = "Quantity and Price must be greater than 0"
          /\ session' = session]_vars

\* a submission was turned down in a session that has a QR code and a GPS fix
\* captured and an earlier entry behind it
C12_Witness ==
    /\ last.op = "Submit"
    /\ last.message = "Quantity and Price must be greater than 0"
    /\ \E s \in Sessions :
           /\ session[s].qr_value # <<>>
           /\ session[s].gps_value # <<>>
           /\ session[s].entry_cycle > 0
           /\ \A t \in Sessions \ {s} : ~session[t].logged_in

\* C13: a successful submission stores the session's QR and GPS values in the
\* new row and leaves that session, and no other, with both values empty and
\* the reset consumed when the next form is shown; a failed insert leaves every
\* session as it was; and a QR or GPS value only ever becomes a non-empty
\* value through its capture widget, so the next row carries the previous
\* row's values only if they were captured again.
C13_CaptureStateCleared ==
    [][/\ (last'.op = "Submit" /\ last'.ok) =>
             \E s \in Sessions :
                 /\ session'[s].entry_cycle = session[s].entry_cycle + 1
                 /\ session'[s].qr_value = <<>>
                 /\ session'[s].gps_value = <<>>
                 /\ ~session'[s].reset_qr_gps
                 /\ \A t \in Sessions \ {s} : session'[t] = session[t]
                 /\ \E r \in inventory' \ inventory :
                        /\ inventory' = inventory \cup {r}
                        /\ r.qr_code = session[s].qr_value
                        /\ r.latitude = parse_gps(session[s].gps_value).latitude
                        /\ r.longitude = parse_gps(session[s].gps_value).longitude
       /\ (last'.op = "Submit" /\ last'.message = "Failed to add stock") =>
             session' = session
       /\ \A s \in Sessions :
             /\ (session'[s].qr_value # session[s].qr_value
                    /\ session'[s].qr_value # <<>>) => last'.op = "CaptureQR"
             /\ (session'[s].gps_value # session[s].gps_value
                    /\ session'[s].gps_value # <<>>) => last'.op = "CaptureGPS"]_vars

\* an entry has just been stored with a QR code and coordinates, and the
\* session that stored it shows an empty form for its second entry
C13_Witness ==
    /\ last.op = "Submit"
    /\ last.ok
    /\ \E r \in inventory : r.id = invSeq /\ r.qr_code # <<>> /\ r.latitude # <<>>
    /\ \E s \in Sessions :
           /\ session[s].entry_cycle = 1
           /\ session[s].qr_value = <<>>
           /\ session[s].gps_value = <<>>
           /\ \A t \in Sessions \ {s} : session[t].entry_cycle = 0

\* C14: the range statement is only ever executed for a session whose role is
\* admin: whenever the last operation issued DELETE ... BETWEEN, it was a
\* Delete Range pressed in a session with role admin, and the account named
\* 'admin' is the only one that gives a session that role.
C14_BulkDeleteAdminOnly ==
    /\ last.sql = "DELETE FROM inventory WHERE id BETWEEN ? AND ?" =>
           /\ last.op = "DeleteRange"
           /\ last.role = "admin"
           /\ \E s \in Sessions : MainView(session[s]) /\ session[s].role = "admin"
    /\ \A s \in Sessions :
           (session[s].logged_in /\ session[s].role = "admin") =>
               session[s].username = ADMIN

\* the admin has just deleted a range while a non-admin session is in the main
\* view, with entries left on display
C14_Witness ==
    /\ last.op = "DeleteRange"
    /\ last.ok
    /\ last.rowcount > 0
    /\ inventory # {}
    /\ \E s \in Sessions : MainView(session[s]) /\ session[s].role = "user"

\* the rows a pending delete request is entitled to remove from the table
Deletable(req, rows) ==
    {r \in rows : r.id = req.id
                   /\ (req.role = "admin" \/ r.added_by = req.username)}

\* C15: when two threads have both entered delete_stock_entry for the same
\* existing id, each entitled to delete it, the one whose statement runs first
\* removes that row and no other, the one that runs second changes nothing,
\* neither raises, and the id is never on the table again.
C15_ConcurrentDeleteSameId ==
    /\ [](\A r \in inventory : r.id <= invSeq)
    /\ [][\A s \in Sessions :
            (pending[s] # <<>> /\ pending'[s] = <<>>) =>
                LET req == pending[s][1]
                    mine == Deletable(req, inventory)
                IN  /\ last'.ok
                    /\ Cardinality(mine) <= 1
                    /\ inventory' = inventory \ mine
                    /\ last'.rowcount = Cardinality(mine)
                    /\ \A t \in Sessions \ {s} :
                           (pending[t] # <<>> /\ pending[t][1].id = req.id
                               /\ mine # {}) =>
                               /\ pending'[t] = pending[t]
                               /\ Deletable(pending[t][1], inventory') = {}
                    /\ (last.op = "delete_stock_entry" /\ last.id = req.id
                           /\ last.rowcount = 1) =>
                           inventory' = inventory /\ last'.rowcount = 0]_vars

\* both calls for id 1 have returned: it was on the table when the admin's
\* call was entered and gone when its statement ran, which removed nothing;
\* rows 2 and 3 are in place
C15_Witness ==
    /\ last.op = "delete_stock_entry"
    /\ last.id = 1
    /\ last.role = "admin"
    /\ last.ok
    /\ last.rowcount = 0
    /\ \A s \in Sessions : pending[s] = <<>>
    /\ invSeq = 3
    /\ {r.id : r \in inventory} = {2, 3}

\* C16: no step changes a stored entry: a row whose id is still on the table
\* after a step is on it with every field as it was, whichever operation the
\* step was (an insert, a delete of other rows, a catalog edit, a user
\* created or deleted, a password changed); and ids are not shared or reused.
C16_EntriesNeverUpdated ==
    /\ [](\A r1, r2 \in inventory : r1.id = r2.id => r1 = r2)
    /\ [](\A r \in inventory : r.id <= invSeq)
    /\ [][\A r \in inventory :
            (\E r2 \in inventory' : r2.id = r.id) => r \in inventory']_vars

\* an entry added before the catalog was edited stands next to one added
\* after, each with the description of its day, and a password has just been
\* changed
C16_Witness ==
    /\ last.op = "update_password"
    /\ last.ok
    /\ \E r1, r2 \in inventory :
           /\ r1.id < r2.id
           /\ r1.item_master_id = r2.item_master_id
           /\ r1.item_description = MasterData[r1.item_master_id].description
           /\ r2.item_description = RevisedMasterData[r2.item_master_id].description
    /\ Cardinality(inventory) < invSeq

\* the session is held on the Change Default Password page
Gated(ss) == ss.logged_in /\ ss.must_change_password = 1

\* a step of session s in the main view: a stock submission, a deletion, a
\* bulk deletion or a user-management operation
MainViewStep(s) ==
    \/ \E c \in SnapshotInputs, q \in AmountInputs, p \in AmountInputs,
          ok \in BOOLEAN : Submit(s, c, q, p, ok)
    \/ \E id \in InventoryIds : DeleteEntry(s, id)
    \/ \E lo \in InventoryIds, hi \in InventoryIds : DeleteRange(s, lo, hi)
    \/ \E n \in AppNameInputs : AdminCreateUser(s, n)
    \/ \E u \in AppUserNames : AdminResetPassword(s, u)
    \/ \E u \in AppUserNames : AdminDeleteUser(s, u)

\* session s has just had a password of at least 6 characters accepted
PasswordChanged(s) ==
    \E p \in AppNewPasswordInputs :
        /\ Len(p) >= MinPasswordLen
        /\ ChangePassword(s, p)
        /\ last'.ok

\* the gate of C17: a session held on the password page takes no main-view
\* step, and nothing but an accepted password change alters it
GateStep(s) ==
    Gated(session[s]) =>
        /\ ~MainViewStep(s)
        /\ session'[s] # session[s] => PasswordChanged(s)

\* the gate alone, as every step keeps it
GateHolds == [][\A s \in Sessions : GateStep(s)]_vars

\* C17: a session that logged in with must_change_password = 1 performs no
\* stock submission, deletion, bulk deletion or user-management operation
\* until it has had a password of at least 6 characters accepted, and once it
\* has, the session's flag is 0 and so is the stored flag of its account.
C17_ForcedChangeGates ==
    [][\A s \in Sessions :
          /\ GateStep(s)
          /\ PasswordChanged(s) =>
                /\ session'[s].must_change_password = 0
                /\ \E r \in users' :
                       /\ r.username = session[s].username
                       /\ r.must_change_password = 0]_vars

====
